---- MODULE Spec2Model ----
(***************************************************************************)
(* Model of render_hidden_word.py: the coordinate-table-to-grid pipeline.  *)
(*   parse_bs4_coordinate_table -> create_two_dimension_grid ->            *)
(*   add_pixels_to_two_dimensional_grid -> grid.reverse() ->               *)
(*   render_grid_message                                                   *)
(* Text is a sequence of one-character strings, so that stripping,         *)
(* integer parsing and joining are computed rather than assumed.           *)
(* Python lists are objects: the grid is a sequence of row identities and  *)
(* `heap` maps a row identity to that row's cells, so aliasing between     *)
(* rows is expressible.                                                    *)
(***************************************************************************)
EXTENDS Integers, Sequences, FiniteSets, TLC

VARIABLES
    table,       \* argument of parse_bs4_coordinate_table (as found by soup.find)
    pc,          \* position in main: "validate","parse","build","paint_check","paint","render"
    err,         \* "none", or the exception raised at position pc
    i,           \* 1-based index of the <tr> the parse loop is at
    data,        \* parse_bs4_coordinate_table: local `data`
    column,      \* parse_bs4_coordinate_table: local `column`
    args,        \* arguments of create_two_dimension_grid
    pixel_data,  \* argument of add_pixels_to_two_dimensional_grid
    k,           \* 1-based index of the record the paint loop is at
    grid,        \* the outer list: sequence of row identities
    heap,        \* row identity -> list of cells
    renders      \* one element per render_grid_message call: the lines it printed

vars == <<table, pc, err, i, data, column, args, pixel_data, k, grid, heap, renders>>

\* ---------------------------------------------------------------- bounds
MaxDataRows == 2      \* <tr> elements after the header
MaxRenders  == 2      \* calls of render_grid_message on the finished grid
MaxRows     == 2      \* num_rows of a directly built grid
MaxCols     == 2      \* num_cols of a directly built grid
MaxRecs     == 2      \* length of a directly supplied pixel_data

\* ---------------------------------------------------------------- text
Blank == <<>>                      \* the empty string ''
Space == <<" ">>                   \* the string ' '

RECURSIVE LStrip(_)
LStrip(s) == IF s # <<>> /\ Head(s) = " " THEN LStrip(Tail(s)) ELSE s

RECURSIVE RStrip(_)
RStrip(s) == IF s # <<>> /\ s[Len(s)] = " " THEN RStrip(SubSeq(s, 1, Len(s) - 1)) ELSE s

\* cell.get_text(strip=True)
GetTextStrip(s) == RStrip(LStrip(s))

Digits == {"0", "1", "2", "3", "4", "5", "6", "7", "8", "9"}

DigitVal(c) ==
    CASE c = "0" -> 0 [] c = "1" -> 1 [] c = "2" -> 2 [] c = "3" -> 3
      [] c = "4" -> 4 [] c = "5" -> 5 [] c = "6" -> 6 [] c = "7" -> 7
      [] c = "8" -> 8 [] c = "9" -> 9

RECURSIVE NatVal(_)
NatVal(s) == IF s = <<>> THEN 0 ELSE 10 * NatVal(SubSeq(s, 1, Len(s) - 1)) + DigitVal(s[Len(s)])

AllDigits(s) == s # <<>> /\ \A n \in 1..Len(s) : s[n] \in Digits

\* int(text) on stripped text: [ok |-> FALSE] stands for ValueError
ParseInt(s) ==
    IF AllDigits(s) THEN [ok |-> TRUE, val |-> NatVal(s)]
    ELSE IF s # <<>> /\ Head(s) = "-" /\ AllDigits(Tail(s))
         THEN [ok |-> TRUE, val |-> 0 - NatVal(Tail(s))]
         ELSE [ok |-> FALSE, val |-> 0]

\* ---------------------------------------------------------------- helpers
\* variant: the list is left in storage order
NotReversed(s) == s

RECURSIVE Reversed(_)
\* list.reverse()
Reversed(s) == IF s = <<>> THEN <<>> ELSE Append(Reversed(Tail(s)), Head(s))

RECURSIVE Concat(_)
\* ''.join(parts)
Concat(parts) == IF parts = <<>> THEN <<>> ELSE Head(parts) \o Concat(Tail(parts))

SeqsUpTo(S, n) == UNION {[1..m -> S] : m \in 0..n}

\* ---------------------------------------------------------------- inputs
\* Raw text of the <td> cells of a data row, by position.
XTexts == {<<>>, <<"0">>, <<" ", "1">>, <<"2">>}
CharTexts == {<<"H">>, <<"I">>, <<"H", "I">>}
YTexts == {<<" ">>, <<"0">>, <<"1">>, <<"-", "1">>, <<"y">>}

\* A <tr> is the sequence of its <td> cells (find_all('td')).
DataRows ==
    {<<>>} \cup {<<a>> : a \in XTexts} \cup {<<a, b>> : a \in XTexts, b \in CharTexts}
           \cup {<<a, b, c>> : a \in XTexts, b \in CharTexts, c \in YTexts}

HeaderRows == {<<<<"0">>, <<"H">>, <<"0">>>>}

Tables ==
    {[kind |-> "None", name |-> "", trs |-> <<>>],
     [kind |-> "Tag", name |-> "div", trs |-> <<>>],
     [kind |-> "Tag", name |-> "table", trs |-> <<>>]}
    \cup {[kind |-> "Tag", name |-> "table", trs |-> <<h>> \o rows] :
             h \in HeaderRows, rows \in SeqsUpTo(DataRows, MaxDataRows)}

NoTable == [kind |-> "None", name |-> "", trs |-> <<>>]

\* Coordinates of a directly supplied record: from -1 (Python's last element)
\* up to the first position past the largest grid.
XCoords == (0 - 1)..MaxCols
YCoords == (0 - 1)..MaxRows
Chars == {<<"A">>, <<"B">>}
Records == [x : XCoords, character : Chars, y : YCoords]

\* ---------------------------------------------------------------- validate_table
\* The exception validate_table raises, or "none" when it returns True.
validate_table(t) ==
    IF t.kind # "Tag" THEN "TypeError"
    ELSE IF t.name # "table" THEN "ValueError"
    ELSE IF t.trs = <<>> THEN "ValueError"
    ELSE "none"

\* ---------------------------------------------------------------- parse_bs4_coordinate_table
\* Index of the first <tr> the loop visits: table.find_all("tr")[1:]
FirstDataRow == 2

\* Body of the loop for one row: what it does with the row's cells.
RowOutcome(cells) ==
    IF cells = <<>> THEN [kind |-> "skip"]
    ELSE IF Len(cells) < 3 THEN [kind |-> "IndexError"]
    ELSE LET cell1 == GetTextStrip(cells[1])
             cell2 == GetTextStrip(cells[2])
             cell3 == GetTextStrip(cells[3])
         IN  IF cell1 = <<>> \/ cell2 = <<>> \/ cell3 = <<>> THEN [kind |-> "skip"]
             ELSE IF ~ParseInt(cell1).ok \/ ~ParseInt(cell3).ok THEN [kind |-> "ValueError"]
             ELSE [kind |-> "record",
                   rec |-> [x |-> ParseInt(cell1).val, character |-> cell2,
                            y |-> ParseInt(cell3).val]]

\* variant: the column of the last record instead of the largest
NewColumnLast(col, x) == x

\* if coordinates["x"] > column: column = coordinates["x"]
NewColumn(col, x) == IF x > col THEN x ELSE col

\* validate_table(table); data = []; column = 0
ParseStart ==
    /\ pc = "validate" /\ err = "none"
    /\ IF validate_table(table) = "none"
       THEN /\ pc' = "parse"
            /\ i' = FirstDataRow
            /\ data' = <<>>
            /\ column' = 0
            /\ err' = err
       ELSE /\ err' = validate_table(table)
            /\ UNCHANGED <<pc, i, data, column>>
    /\ UNCHANGED <<table, args, pixel_data, k, grid, heap, renders>>

\* one iteration of `for row in table.find_all("tr")[1:]`
ParseRow ==
    /\ pc = "parse" /\ err = "none"
    /\ i <= Len(table.trs)
    /\ LET o == RowOutcome(table.trs[i])
       IN  CASE o.kind = "skip" ->
                  /\ i' = i + 1
                  /\ UNCHANGED <<data, column, err>>
             [] o.kind = "record" ->
                  /\ i' = i + 1
                  /\ data' = Append(data, o.rec)
                  /\ column' = NewColumn(column, o.rec.x)
                  /\ err' = err
             [] OTHER ->
                  /\ err' = o.kind
                  /\ UNCHANGED <<i, data, column>>
    /\ UNCHANGED <<table, pc, args, pixel_data, k, grid, heap, renders>>

\* return data, column; main passes them on (lines 327-330)
ParseReturn ==
    /\ pc = "parse" /\ err = "none"
    /\ i > Len(table.trs)
    /\ pc' = "build"
    /\ args' = [num_rows |-> column, num_cols |-> column + 1]
    /\ pixel_data' = data
    /\ UNCHANGED <<table, err, i, data, column, k, grid, heap, renders>>

\* ---------------------------------------------------------------- create_two_dimension_grid
\* [''] * num_cols
CreateCol(num_cols) == [c \in 1..num_cols |-> Blank]

\* variant: [_create_col(num_cols)] * num_rows, one list shared by all rows
CreateGridShared(num_rows, num_cols) ==
    [grid |-> [r \in 1..num_rows |-> 1],
     heap |-> [r \in 1..(IF num_rows > 0 THEN 1 ELSE 0) |-> CreateCol(num_cols)]]

\* [_create_col(num_cols) for _ in range(num_rows)]: every row is a new list
CreateGrid(num_rows, num_cols) ==
    [grid |-> [r \in 1..num_rows |-> r],
     heap |-> [r \in 1..num_rows |-> CreateCol(num_cols)]]

Build ==
    /\ pc = "build" /\ err = "none"
    /\ grid' = CreateGrid(args.num_rows, args.num_cols).grid
    /\ heap' = CreateGrid(args.num_rows, args.num_cols).heap
    /\ pc' = "paint_check"
    /\ UNCHANGED <<table, err, i, data, column, args, pixel_data, k, renders>>

\* ---------------------------------------------------------------- add_pixels_to_two_dimensional_grid
\* The row that position r (1-based) of the outer list refers to.
RowAt(g, h, r) == h[g[r]]

\* Python subscript on a list of length n: negative indices count from the end;
\* -1 stands for IndexError, otherwise the 0-based position.
PyIndex(idx, n) ==
    IF idx >= 0 /\ idx < n THEN idx
    ELSE IF idx < 0 /\ idx + n >= 0 THEN idx + n
    ELSE 0 - 1

\* the checks on grid before the loop (lines 194-204)
GridCheck(g, h) ==
    IF g = <<>> THEN "ValueError"
    ELSE IF \E r \in 1..Len(g) : RowAt(g, h, r) = <<>> THEN "ValueError"
    ELSE "none"

Clamp(idx, n) == IF idx >= n THEN n - 1 ELSE IF idx < 0 THEN 0 ELSE idx

\* variant: coordinates are clamped onto the grid instead of rejected
PaintOneClamp(g, h, rec) ==
    [raised |-> "none",
     heap |-> [h EXCEPT ![g[Clamp(rec.y, Len(g)) + 1]]
                         [Clamp(rec.x, Len(RowAt(g, h, 1))) + 1] = rec.character]]

\* variant: a cell that already holds a character is not overwritten
PaintOneKeepFirst(g, h, rec) ==
    IF rec.y >= Len(g) \/ rec.x >= Len(RowAt(g, h, 1)) \/ rec.y < 0 \/ rec.x < 0
    THEN [raised |-> "IndexError", heap |-> h]
    ELSE [raised |-> "none",
          heap |-> IF h[g[rec.y + 1]][rec.x + 1] = Blank
                   THEN [h EXCEPT ![g[rec.y + 1]][rec.x + 1] = rec.character]
                   ELSE h]

\* Body of the loop for one record (lines 211-221): the exception it raises
\* and the heap it leaves.
PaintOne(g, h, rec) ==
    IF rec.y >= Len(g) \/ rec.x >= Len(RowAt(g, h, 1))
    THEN [raised |-> "IndexError", heap |-> h]
    ELSE LET yi == PyIndex(rec.y, Len(g))
         IN  IF yi < 0 THEN [raised |-> "IndexError", heap |-> h]
             ELSE LET xi == PyIndex(rec.x, Len(RowAt(g, h, yi + 1)))
                  IN  IF xi < 0 THEN [raised |-> "IndexError", heap |-> h]
                      ELSE [raised |-> "none",
                            heap |-> [h EXCEPT ![g[yi + 1]][xi + 1] = rec.character]]

PaintCheck ==
    /\ pc = "paint_check" /\ err = "none"
    /\ IF GridCheck(grid, heap) = "none"
       THEN /\ pc' = "paint"
            /\ k' = 1
            /\ err' = err
       ELSE /\ err' = GridCheck(grid, heap)
            /\ UNCHANGED <<pc, k>>
    /\ UNCHANGED <<table, i, data, column, args, pixel_data, grid, heap, renders>>

\* one iteration of `for coordinates in pixel_data`
PaintStep ==
    /\ pc = "paint" /\ err = "none"
    /\ k <= Len(pixel_data)
    /\ LET o == PaintOne(grid, heap, pixel_data[k])
       IN  /\ heap' = o.heap
           /\ err' = o.raised
           /\ k' = IF o.raised = "none" THEN k + 1 ELSE k
    /\ UNCHANGED <<table, pc, i, data, column, args, pixel_data, grid, renders>>

\* ---------------------------------------------------------------- main: grid.reverse()
Reverse ==
    /\ pc = "paint" /\ err = "none"
    /\ k > Len(pixel_data)
    /\ grid' = Reversed(grid)
    /\ pc' = "render"
    /\ UNCHANGED <<table, err, i, data, column, args, pixel_data, k, heap, renders>>

\* ---------------------------------------------------------------- render_grid_message
\* ''.join(cell or ' ' for cell in row)
JoinRow(row) == Concat([c \in 1..Len(row) |-> IF row[c] = Blank THEN Space ELSE row[c]])

\* the lines printed by one call, in print order
RenderLines(g, h) == [r \in 1..Len(g) |-> JoinRow(RowAt(g, h, r))]

\* variant: the call reverses the grid itself each time it renders
RenderReversing ==
    /\ pc = "render" /\ err = "none"
    /\ Len(renders) < MaxRenders
    /\ grid # <<>>
    /\ renders' = Append(renders, RenderLines(Reversed(grid), heap))
    /\ grid' = Reversed(grid)
    /\ UNCHANGED <<table, pc, err, i, data, column, args, pixel_data, k, heap>>

Render ==
    /\ pc = "render" /\ err = "none"
    /\ Len(renders) < MaxRenders
    /\ IF grid = <<>>
       THEN /\ err' = "ValueError"
            /\ UNCHANGED renders
       ELSE /\ renders' = Append(renders, RenderLines(grid, heap))
            /\ err' = err
    /\ UNCHANGED <<table, pc, i, data, column, args, pixel_data, k, grid, heap>>

\* ---------------------------------------------------------------- specifications
\* main() on a fetched table
Init ==
    /\ table \in Tables
    /\ pc = "validate" /\ err = "none"
    /\ i = FirstDataRow /\ data = <<>> /\ column = 0
    /\ args = [num_rows |-> 0, num_cols |-> 0]
    /\ pixel_data = <<>> /\ k = 1
    /\ grid = <<>> /\ heap = <<>> /\ renders = <<>>

Next ==
    \/ ParseStart
    \/ ParseRow
    \/ ParseReturn
    \/ Build
    \/ PaintCheck
    \/ PaintStep
    \/ Reverse
    \/ Render

Spec == Init /\ [][Next]_vars

\* The grid stages called directly: build(num_rows, num_cols), paint, reverse, render
InitGrid ==
    /\ table = NoTable
    /\ pc = "build" /\ err = "none"
    /\ i = FirstDataRow /\ data = <<>> /\ column = 0
    /\ args \in [num_rows : 0..MaxRows, num_cols : 0..MaxCols]
    /\ pixel_data \in SeqsUpTo(Records, MaxRecs)
    /\ k = 1
    /\ grid = <<>> /\ heap = <<>> /\ renders = <<>>

NextGrid ==
    \/ Build
    \/ PaintCheck
    \/ PaintStep
    \/ Reverse
    \/ Render

SpecGrid == InitGrid /\ [][NextGrid]_vars


\* ================================================================ properties
Rows == Len(heap)                 \* rows of the grid in storage (build) order
Painted(r, c) == heap[r + 1][c + 1]   \* cell at row r, column c, 0-based, as painted

InBounds(rec) ==
    /\ 0 <= rec.y /\ rec.y < args.num_rows
    /\ 0 <= rec.x /\ rec.x < args.num_cols

MaxOf(S) == CHOOSE m \in S : \A n \in S : n <= m

\* The character the last of the first n records with y = r and x = c carries,
\* Blank when there is none.
LastChar(n, r, c) ==
    LET S == {m \in 1..n : pixel_data[m].y = r /\ pixel_data[m].x = c}
    IN  IF S = {} THEN Blank ELSE pixel_data[MaxOf(S)].character

\* A data row the extractor has to pass over: fewer than 3 cells, or one of the
\* first 3 cells empty after trimming.
Incomplete(cells) ==
    \/ Len(cells) < 3
    \/ \E n \in 1..3 : GetTextStrip(cells[n]) = <<>>

RecordOf(cells) ==
    [x |-> ParseInt(GetTextStrip(cells[1])).val,
     character |-> GetTextStrip(cells[2]),
     y |-> ParseInt(GetTextStrip(cells[3])).val]

RECURSIVE RecordsUpTo(_)
\* The records of the complete rows 2..n of the table, in row order.
RecordsUpTo(n) ==
    IF n < 2 THEN <<>>
    ELSE IF Incomplete(table.trs[n]) THEN RecordsUpTo(n - 1)
    ELSE Append(RecordsUpTo(n - 1), RecordOf(table.trs[n]))

\* C1: during extraction, a data row with fewer than 3 cells, or with one of its
\* first 3 cells empty after trimming, raises nothing and adds no record.
C1_SkipIncompleteRow ==
    /\ (pc = "parse" /\ i <= Len(table.trs) /\ Incomplete(table.trs[i])) => err = "none"
    /\ pc = "parse" =>
         Len(data) <= Cardinality({n \in 2..(i - 1) : ~Incomplete(table.trs[n])})

\* C2: a paint step on a record with x >= cols or y >= rows raises IndexError
\* and writes no cell.
C2_BoundsEnforced ==
    [][(/\ pc = "paint" /\ err = "none" /\ k <= Len(pixel_data)
        /\ (pixel_data[k].x >= args.num_cols \/ pixel_data[k].y >= args.num_rows))
       => (err' = "IndexError" /\ heap' = heap /\ grid' = grid)]_vars

C2_Witness ==
    /\ pc = "paint" /\ err = "IndexError" /\ k = 2
    /\ pixel_data[k].x = args.num_cols
    /\ pixel_data[k].y = 0
    /\ InBounds(pixel_data[1])

\* C3: the grid main builds from an extraction result has at least one row and
\* one column, equal row lengths, and is accepted by paint.
C3_PipelineGridNonEmpty ==
    pc \in {"paint_check", "paint", "render"} =>
        /\ Len(grid) >= 1
        /\ \A r \in 1..Len(grid) : Len(RowAt(grid, heap, r)) >= 1
        /\ \A r, q \in 1..Len(grid) : Len(RowAt(grid, heap, r)) = Len(RowAt(grid, heap, q))
        /\ (pc = "paint_check" => err = "none")

OneCharCells == \A r \in 1..Rows : \A c \in 1..Len(heap[r]) : Len(heap[r][c]) <= 1

\* C4: a render of the painted grid whose cells are blank or one character prints
\* one line per row, each as long as the row; line l is painted row rows-1-l
\* (0-based), column by column, with a space for each blank cell.
C4_RenderReversedRows ==
    \A n \in 1..Len(renders) :
        OneCharCells =>
            /\ Len(renders[n]) = args.num_rows
            /\ \A l \in 0..(Rows - 1) :
                 renders[n][l + 1] =
                     [c \in 1..args.num_cols |->
                         IF Painted(Rows - 1 - l, c - 1) = Blank THEN " "
                         ELSE Painted(Rows - 1 - l, c - 1)[1]]

C4_Witness ==
    /\ Len(renders) >= 1
    /\ pixel_data = <<[x |-> 0, character |-> <<"H">>, y |-> 0],
                      [x |-> 2, character |-> <<"I">>, y |-> 1]>>
    /\ renders[1] = << <<" ", " ", "I">>, <<"H", " ", " ">> >>

\* C5: if the first record that is not inside the grid is at position K, paint
\* ends with IndexError at K, and the grid holds exactly the writes of the
\* records before K.
C5_AbortAtFirstOutOfBounds ==
    LET Out == {n \in 1..Len(pixel_data) : ~InBounds(pixel_data[n])}
    IN  (/\ Out # {}
         /\ \/ pc = "render"
            \/ pc = "paint" /\ err # "none")
        => LET K == CHOOSE n \in Out : \A m \in Out : n <= m
           IN  /\ pc = "paint" /\ err = "IndexError" /\ k = K
               /\ \A r \in 0..(args.num_rows - 1) : \A c \in 0..(args.num_cols - 1) :
                      Painted(r, c) = LastChar(K - 1, r, c)

\* C6: after paint returns on records that all lie inside the grid, each cell
\* holds the character of the last record addressing it, or is still blank, and
\* the grid has the rows and columns it was built with.
C6_LastWriteWins ==
    (pc = "render" /\ \A n \in 1..Len(pixel_data) : InBounds(pixel_data[n]))
    => /\ Len(grid) = args.num_rows
       /\ \A r \in 0..(args.num_rows - 1) :
            /\ Len(heap[r + 1]) = args.num_cols
            /\ \A c \in 0..(args.num_cols - 1) :
                 Painted(r, c) = LastChar(Len(pixel_data), r, c)

C6_Witness ==
    /\ pc = "render"
    /\ Len(pixel_data) = 2
    /\ InBounds(pixel_data[1])
    /\ pixel_data[1].x = 1 /\ pixel_data[2].x = 1
    /\ pixel_data[1].y = 1 /\ pixel_data[2].y = 1
    /\ pixel_data[1].character # pixel_data[2].character
    /\ Painted(1, 1) = pixel_data[2].character

\* C7: build returns num_rows rows of num_cols blank cells each, and a write to
\* one cell changes at most the row it is in.
C7_BuildShapeAndIndependentRows ==
    /\ [](pc = "paint_check" =>
            /\ Len(grid) = args.num_rows
            /\ \A r \in 1..Len(grid) :
                 /\ Len(RowAt(grid, heap, r)) = args.num_cols
                 /\ \A c \in 1..args.num_cols : RowAt(grid, heap, r)[c] = Blank)
    /\ [][(pc = "paint" /\ k <= Len(pixel_data)) =>
            Cardinality({r \in 1..Len(grid) :
                            RowAt(grid', heap', r) # RowAt(grid, heap, r)}) <= 1]_vars

C7_Witness ==
    /\ pc = "paint" /\ err = "none" /\ k = 2
    /\ args.num_rows = 2 /\ args.num_cols = 2
    /\ RowAt(grid, heap, 1) = <<pixel_data[1].character, Blank>>
    /\ RowAt(grid, heap, 2) = <<Blank, Blank>>

\* C8: the extractor's records are those of the complete rows after the header,
\* in row order, and column is the largest x among them, or 0.
C8_RecordsInOrderAndMaxX ==
    (pc # "validate") =>
        /\ data = RecordsUpTo(i - 1)
        /\ column = MaxOf({0} \cup {data[n].x : n \in 1..Len(data)})
        /\ \A n \in 1..Len(data) : column >= data[n].x
        /\ (pc # "parse" => i = Len(table.trs) + 1)

C8_Witness ==
    /\ pc = "build"
    /\ Len(table.trs) = 3
    /\ Len(data) = 2
    /\ data[1].x = 2 /\ data[2].x = 1
    /\ column = 2

\* C9: every render of the finished grid prints the same lines, and a render
\* changes neither the row order nor any cell.
C9_RenderIdempotent ==
    /\ [](\A a, b \in 1..Len(renders) : renders[a] = renders[b])
    /\ [][pc = "render" => (grid' = grid /\ heap' = heap)]_vars

C9_Witness ==
    /\ Len(renders) = 2
    /\ Len(grid) = 2
    /\ renders[1][1] # renders[1][2]

\* C10: a paint step changes at most the cell at row y, column x of its record,
\* and only when 0 <= y < rows and 0 <= x < cols.
C10_WritesOnlyInsideGrid ==
    [][(pc = "paint" /\ err = "none" /\ k <= Len(pixel_data)) =>
          \/ heap' = heap
          \/ /\ InBounds(pixel_data[k])
             /\ heap' = [heap EXCEPT ![grid[pixel_data[k].y + 1]][pixel_data[k].x + 1]
                                         = pixel_data[k].character]]_vars
====
